---- MODULE Spec2Model ----
(***************************************************************************)
(* Preset persistence and resynchronisation of the OoT3D randomizer        *)
(* (preset.cpp): SavePreset / LoadPreset / DeletePreset, the cached        *)
(* presets, preset enumeration and the preset directory tree.              *)
(*                                                                         *)
(* Strings that the code only concatenates or compares whole are TLA+      *)
(* strings; option names, which the code filters character by character    *)
(* (RemoveLineBreaks), are sequences of one-character strings.             *)
(***************************************************************************)
EXTENDS Naturals, Sequences, FiniteSets, TLC

VARIABLES
  menus,         \* Settings::GetAllOptionMenus(): the menus and their options
  files,         \* the SD card: path -> stored document
  dirs,          \* the SD card: directories that exist
  openArchives,  \* FS_Archive handles opened and not yet closed
  last,          \* the operation that ran last and what it returned
  trace,         \* what the last LoadPreset did, one record per option visited
  everCached     \* the categories whose cache file has ever been stored

vars == <<menus, files, dirs, openArchives, last, trace, everCached>>

----------------------------------------------------------------------------
(* Bounds of the model.                                                    *)

\* longest document (number of <setting> entries) the initial card holds
MaxEntries == 3
\* largest number of options over all menus
MaxOptions == 3
\* DeletePreset leaks a handle per call: calls stop at this many open handles
MaxArchives == 1

----------------------------------------------------------------------------
(* Names, categories, paths.                                               *)

CACHED_SETTINGS_FILENAME == "CACHED_SETTINGS"
CACHED_COSMETICS_FILENAME == "CACHED_COSMETICS"

OptionCategory == {"Setting", "Cosmetic", "Toggle"}

\* the categories presets are kept for, and the cache file of each
PresetCategories == {"Setting", "Cosmetic"}
CachedFileName(category) ==
  IF category = "Setting" THEN CACHED_SETTINGS_FILENAME ELSE CACHED_COSMETICS_FILENAME

\* GetBasePath with the cosmetics case returning the settings directory
GetBasePathOneDirectory(category) ==
  CASE category = "Setting" -> "/3ds/presets/oot3dr/settings/"
    [] category = "Cosmetic" -> "/3ds/presets/oot3dr/settings/"
    [] OTHER -> ""

GetBasePath(category) ==
  CASE category = "Setting" -> "/3ds/presets/oot3dr/settings/"
    [] category = "Cosmetic" -> "/3ds/presets/oot3dr/cosmetics/"
    [] OTHER -> ""

PresetPath(presetName, category) ==
  (GetBasePath(category) \o presetName) \o ".xml"

\* the directory a preset of the category is stored in ("" is the working
\* directory, which always exists)
BaseDirectory(category) ==
  CASE category = "Setting" -> "/3ds/presets/oot3dr/settings"
    [] category = "Cosmetic" -> "/3ds/presets/oot3dr/cosmetics"
    [] OTHER -> ""

PresetDirectories ==
  { "/3ds", "/3ds/presets", "/3ds/presets/oot3dr",
    "/3ds/presets/oot3dr/cosmetics", "/3ds/presets/oot3dr/settings" }

DirectoryExists(d) == d = "" \/ d \in dirs

----------------------------------------------------------------------------
(* The option model (settings.hpp / utils.hpp, not part of preset.cpp).    *)

LineBreak == "\n"

\* utils: the name without its line breaks
RemoveLineBreaks(s) == SelectSeq(s, LAMBDA ch : ch # LineBreak)

\* the choices every option of the model offers, by selected index
OptionTexts == <<"Off", "On">>

GetSelectedOptionText(option) == OptionTexts[option.selectedOption]

\* the option with the first choice whose text is newSetting selected; an
\* unknown text leaves the option as it is
SetSelectedIndexByString(option, newSetting) ==
  IF \E i \in DOMAIN OptionTexts : OptionTexts[i] = newSetting
    THEN [option EXCEPT !.selectedOption =
            CHOOSE i \in DOMAIN OptionTexts :
              /\ OptionTexts[i] = newSetting
              /\ \A j \in DOMAIN OptionTexts : OptionTexts[j] = newSetting => i <= j]
    ELSE option

IsCategory(option, category) == option.category = category

\* the positions <<menu, index>> of the options of the option menus, in
\* traversal order
RECURSIVE Traversal(_, _)
Traversal(ms, m) ==
  IF m > Len(ms) THEN <<>>
  ELSE (IF ms[m].mode = "OPTION_MENU"
          THEN [i \in 1..Len(ms[m].settingsList) |-> <<m, i>>]
          ELSE <<>>) \o Traversal(ms, m + 1)

OptionAt(ms, pos) == ms[pos[1]].settingsList[pos[2]]

----------------------------------------------------------------------------
(* Documents (tinyxml2).                                                   *)

\* a stored file: parsed is FALSE for bytes LoadFile rejects; root is the
\* root element's name, "" when the document has no root element
NoRoot == ""

FirstChildElement(entries) == IF Len(entries) > 0 THEN 1 ELSE 0
NextSiblingElement(entries, cur) == IF cur < Len(entries) THEN cur + 1 ELSE 0

\* LoadFileOk without the test of the error code
LoadFileOkExists(path) == path \in DOMAIN files

\* XMLDocument::LoadFile succeeded
LoadFileOk(path) == path \in DOMAIN files /\ files[path].parsed

----------------------------------------------------------------------------
(* SavePreset.                                                             *)

\* SavedEntries without the category test: an entry for every option
SavedEntriesOfAll(ms, todo, category) ==
  [i \in DOMAIN todo |->
     [name |-> RemoveLineBreaks(OptionAt(ms, todo[i]).name),
      text |-> GetSelectedOptionText(OptionAt(ms, todo[i]))]]

RECURSIVE SavedEntries(_, _, _)
SavedEntries(ms, todo, category) ==
  IF todo = <<>> THEN <<>>
  ELSE LET setting == OptionAt(ms, Head(todo))
       IN (IF IsCategory(setting, category)
             THEN << [name |-> RemoveLineBreaks(setting.name),
                      text |-> GetSelectedOptionText(setting)] >>
             ELSE <<>>) \o SavedEntries(ms, Tail(todo), category)

\* the document SavePreset builds
PresetDocument(category) ==
  [parsed |-> TRUE, root |-> "settings",
   entries |-> SavedEntries(menus, Traversal(menus, 1), category)]

----------------------------------------------------------------------------
(* LoadPreset: the loop over the options.                                  *)

\* Skipped without the category test
SkippedNever(setting, category) == FALSE

\* the option is not of the requested category: the loop moves on
Skipped(setting, category) == ~IsCategory(setting, category)

\* SettingToFind without the call of RemoveLineBreaks
SettingToFindRaw(setting) == setting.name

\* the name the loop looks for: the option's name without its line breaks
SettingToFind(setting) == RemoveLineBreaks(setting.name)

\* FastMatch that never holds: every option is searched from the start
FastMatchNever(setting, entries, curNode) == FALSE

\* FastMatch without the comparison: entries are taken by position
FastMatchAlways(setting, entries, curNode) == TRUE

\* the option's name is the name of the entry the cursor is at
FastMatch(setting, entries, curNode) ==
  SettingToFind(setting) = RemoveLineBreaks(entries[curNode].name)

\* ScanFrom that leaves the loop after its first entry
ScanFromOnce(entries, cur, settingToFind) ==
  IF cur # 0 /\ settingToFind = RemoveLineBreaks(entries[cur].name) THEN cur ELSE 0

\* the search from cur onwards: the first entry named settingToFind, 0 if none
RECURSIVE ScanFrom(_, _, _)
ScanFrom(entries, cur, settingToFind) ==
  IF cur = 0 THEN 0
  ELSE IF settingToFind = RemoveLineBreaks(entries[cur].name) THEN cur
  ELSE ScanFrom(entries, NextSiblingElement(entries, cur), settingToFind)

\* AfterHit without the step to the next entry
AfterHitStay(entries, hit) == hit

\* the cursor after the search found the entry hit: the entry after it
AfterHit(entries, hit) == NextSiblingElement(entries, hit)

\* InitialCursor that keeps the cursor of the LoadPreset before (steps)
InitialCursorKept(entries, steps) ==
  IF steps # <<>> /\ steps[Len(steps)].after \in DOMAIN entries
    THEN steps[Len(steps)].after
    ELSE FirstChildElement(entries)

\* the cursor LoadPreset starts with: the first entry, whatever the
\* LoadPreset before left (steps)
InitialCursor(entries, steps) == FirstChildElement(entries)

\* ResetAtEnd without the reset
ResetAtEndNever(entries, curNode) == curNode

\* the cursor after "reset to the beginning if we reached the end"
ResetAtEnd(entries, curNode) ==
  IF curNode = 0 THEN FirstChildElement(entries) ELSE curNode

\* one iteration of the inner loop: the option at pos, the cursor curNode.
\* onNull is what reading through a null curNode does in this run. The step
\* records the path taken ("null": the cursor was read while null), the
\* cursor before and after, and the entry whose text was applied (0: none).
VisitSetting(ms, pos, curNode, entries, category, onNull) ==
  LET setting == OptionAt(ms, pos)
      Set(e) == [ms EXCEPT ![pos[1]].settingsList[pos[2]] =
                   SetSelectedIndexByString(setting, entries[e].text)]
      hit == ScanFrom(entries, FirstChildElement(entries), SettingToFind(setting))
      slow == IF curNode = 0 THEN "null" ELSE "slow"
      Went(newMenus, path, entry, cur) ==
        [menus |-> newMenus, cur |-> cur, crashed |-> FALSE,
         step |-> [pos |-> pos, path |-> path, before |-> curNode,
                   entry |-> entry, after |-> cur]]
  IN
  IF Skipped(setting, category) THEN Went(ms, "skip", 0, curNode)
  ELSE IF curNode = 0 /\ onNull = "crash"
    THEN [Went(ms, "null", 0, 0) EXCEPT !.crashed = TRUE]
  ELSE IF curNode # 0 /\ FastMatch(setting, entries, curNode)
    THEN Went(Set(curNode), "fast", curNode,
              ResetAtEnd(entries, NextSiblingElement(entries, curNode)))
  ELSE IF hit # 0
    THEN Went(Set(hit), slow, hit, ResetAtEnd(entries, AfterHit(entries, hit)))
  ELSE Went(ms, slow, 0, ResetAtEnd(entries, 0))

RECURSIVE VisitAll(_, _, _, _, _, _, _)
VisitAll(ms, todo, curNode, entries, category, onNull, steps) ==
  IF todo = <<>> THEN [menus |-> ms, crashed |-> FALSE, steps |-> steps]
  ELSE LET v == VisitSetting(ms, Head(todo), curNode, entries, category, onNull)
       IN IF v.crashed
            THEN [menus |-> v.menus, crashed |-> TRUE,
                  steps |-> Append(steps, v.step)]
            ELSE VisitAll(v.menus, Tail(todo), v.cur, entries, category, onNull,
                          Append(steps, v.step))

----------------------------------------------------------------------------
(* The record kept of the last operation.                                  *)

\* op: the function called; name, category: its arguments; ret: "true",
\* "false", "void", or "crash" / "threw" when it did not return;
\* wrote: SavePreset stored the document; loaded: LoadPreset was called;
\* list: what enumeration returned; before: the menus when the operation
\* started; follows: a LoadPreset that ran right after a SavePreset that
\* stored the same name and category; again: a LoadPreset that ran right
\* after a LoadPreset of the same name and category; had: a DeletePreset
\* found a file at the path; opened: a DeletePreset could open the archive
Done(op, name, category, ret, wrote, loaded, list, before) ==
  [op |-> op, name |-> name, category |-> category, ret |-> ret,
   wrote |-> wrote, loaded |-> loaded, list |-> list, before |-> before,
   follows |-> /\ op = "LoadPreset"
               /\ last.wrote
               /\ last.name = name
               /\ last.category = category,
   again |-> /\ op = "LoadPreset"
             /\ last.op = "LoadPreset"
             /\ last.name = name
             /\ last.category = category,
   had |-> /\ op = "DeletePreset"
           /\ PresetPath(name, category) \in DOMAIN files,
   opened |-> FALSE]

Store(path, doc) ==
  [p \in DOMAIN files \cup {path} |-> IF p = path THEN doc ELSE files[p]]

Remove(path) == [p \in DOMAIN files \ {path} |-> files[p]]

----------------------------------------------------------------------------
(* The operations of preset.cpp.                                           *)

\* XMLDocument::SaveFile succeeds when the file can be opened for writing
SaveFileOk(category, io) == io /\ DirectoryExists(BaseDirectory(category))

\* what SavePreset does to the card
SavePreset(presetName, category, io) ==
  /\ files' = IF SaveFileOk(category, io)
                THEN Store(PresetPath(presetName, category), PresetDocument(category))
                ELSE files
  /\ everCached' =
       IF SaveFileOk(category, io)
         THEN everCached \cup
                { c \in PresetCategories :
                    PresetPath(presetName, category) = PresetPath(CachedFileName(c), c) }
         ELSE everCached
  /\ UNCHANGED <<menus, dirs, openArchives>>
  /\ trace' = <<>>

BoolText(b) == IF b THEN "true" ELSE "false"

\* what LoadPreset returns and does to the options; onNull is what a read
\* through a null pointer does in this run: "crash", or "garbage" when the
\* read goes through and yields bytes that compare unequal
LoadPreset(presetName, category, onNull) ==
  LET path == PresetPath(presetName, category)
      none == [ret |-> "false", menus |-> menus, steps |-> <<>>]
  IN IF ~LoadFileOk(path) THEN none
     ELSE LET preset == files[path]
          IN IF preset.root = NoRoot
               THEN [none EXCEPT !.ret = IF onNull = "crash" THEN "crash" ELSE "false"]
             ELSE IF preset.root # "settings" THEN none
             ELSE LET v == VisitAll(menus, Traversal(menus, 1),
                                    InitialCursor(preset.entries, trace),
                                    preset.entries, category, onNull, <<>>)
                  IN [ret |-> IF v.crashed THEN "crash" ELSE "true",
                      menus |-> v.menus, steps |-> v.steps]

NullReads == {"crash", "garbage"}

\* the process is alive: a crash or an uncaught exception ends it
Running == last.ret \notin {"crash", "threw"}

SavePresetOp(presetName, category) ==
  \E io \in BOOLEAN :
    /\ Running
    /\ SavePreset(presetName, category, io)
    /\ last' = Done("SavePreset", presetName, category,
                    BoolText(SaveFileOk(category, io)),
                    SaveFileOk(category, io), FALSE, {}, menus)

LoadPresetOp(presetName, category) ==
  \E onNull \in NullReads :
    LET r == LoadPreset(presetName, category, onNull)
    IN /\ Running
       /\ menus' = r.menus
       /\ trace' = r.steps
       /\ last' = Done("LoadPreset", presetName, category, r.ret, FALSE, TRUE, {}, menus)
       /\ UNCHANGED <<files, dirs, openArchives, everCached>>

\* opened: FSUSER_OpenArchive succeeded
CreatePresetDirectories ==
  \E opened \in BOOLEAN :
    /\ Running
    /\ dirs' = IF opened THEN dirs \cup PresetDirectories ELSE dirs
    /\ openArchives' = IF opened THEN (openArchives + 1) - 1 ELSE openArchives
    /\ last' = Done("CreatePresetDirectories", "", "", BoolText(opened),
                    FALSE, FALSE, {}, menus)
    /\ trace' = <<>>
    /\ UNCHANGED <<menus, files, everCached>>

\* the names a file of the category's directory can have in the model
PresetNames == {"", "P", "Q", CACHED_SETTINGS_FILENAME, CACHED_COSMETICS_FILENAME}

\* path().stem() of the file a preset name is stored in: a file name that is
\* only an extension has no extension to drop
Stem(presetName) == IF presetName = "" THEN ".xml" ELSE presetName

\* the stems of the files of the category's directory
DirectoryStems(category) ==
  { Stem(n) : n \in { m \in PresetNames : PresetPath(m, category) \in DOMAIN files } }

\* GetSettingsPresets without the test against the cache file's name
GetSettingsPresetsAll ==
  /\ Running
  /\ IF DirectoryExists(BaseDirectory("Setting"))
       THEN last' = Done("GetSettingsPresets", "", "Setting", "true", FALSE, FALSE,
                         DirectoryStems("Setting"), menus)
       ELSE last' = Done("GetSettingsPresets", "", "Setting", "threw", FALSE, FALSE,
                         {}, menus)
  /\ trace' = <<>>
  /\ UNCHANGED <<menus, files, dirs, openArchives, everCached>>

GetSettingsPresets ==
  /\ Running
  /\ IF DirectoryExists(BaseDirectory("Setting"))
       THEN last' = Done("GetSettingsPresets", "", "Setting", "true", FALSE, FALSE,
                         { e \in DirectoryStems("Setting") : e # CACHED_SETTINGS_FILENAME },
                         menus)
       ELSE last' = Done("GetSettingsPresets", "", "Setting", "threw", FALSE, FALSE,
                         {}, menus)
  /\ trace' = <<>>
  /\ UNCHANGED <<menus, files, dirs, openArchives, everCached>>

\* DeletePreset that returns the result of FSUSER_DeleteFile: false when
\* there was no file to delete
DeletePresetStrict(presetName, category) ==
  \E opened \in BOOLEAN :
    /\ Running
    /\ openArchives < MaxArchives
    /\ files' = IF opened THEN Remove(PresetPath(presetName, category)) ELSE files
    /\ openArchives' = IF opened THEN openArchives + 1 ELSE openArchives
    /\ last' = [Done("DeletePreset", presetName, category,
                     BoolText(opened /\ PresetPath(presetName, category) \in DOMAIN files),
                     FALSE, FALSE, {}, menus) EXCEPT !.opened = opened]
    /\ trace' = <<>>
    /\ UNCHANGED <<menus, dirs, everCached>>

DeletePreset(presetName, category) ==
  \E opened \in BOOLEAN :
    /\ Running
    /\ openArchives < MaxArchives
    /\ files' = IF opened THEN Remove(PresetPath(presetName, category)) ELSE files
    /\ openArchives' = IF opened THEN openArchives + 1 ELSE openArchives
    /\ last' = [Done("DeletePreset", presetName, category, BoolText(opened),
                     FALSE, FALSE, {}, menus) EXCEPT !.opened = opened]
    /\ trace' = <<>>
    /\ UNCHANGED <<menus, dirs, everCached>>

\* SaveSpecifiedPreset without the test for the empty name
SaveSpecifiedPresetUnguarded(presetName, category) ==
  \E io \in BOOLEAN :
    /\ Running
    /\ SavePreset(presetName, category, io)
    /\ last' = Done("SaveSpecifiedPreset", presetName, category,
                    BoolText(SaveFileOk(category, io)),
                    SaveFileOk(category, io), FALSE, {}, menus)

SaveSpecifiedPreset(presetName, category) ==
  IF presetName = ""
    THEN /\ Running
         /\ last' = Done("SaveSpecifiedPreset", presetName, category, "false",
                         FALSE, FALSE, {}, menus)
         /\ trace' = <<>>
         /\ UNCHANGED <<menus, files, dirs, openArchives, everCached>>
    ELSE \E io \in BOOLEAN :
           /\ Running
           /\ SavePreset(presetName, category, io)
           /\ last' = Done("SaveSpecifiedPreset", presetName, category,
                           BoolText(SaveFileOk(category, io)),
                           SaveFileOk(category, io), FALSE, {}, menus)

SaveCachedSettings ==
  \E io \in BOOLEAN :
    /\ Running
    /\ SavePreset(CACHED_SETTINGS_FILENAME, "Setting", io)
    /\ last' = Done("SaveCachedSettings", CACHED_SETTINGS_FILENAME, "Setting", "void",
                    SaveFileOk("Setting", io), FALSE, {}, menus)

SaveCachedCosmetics ==
  \E io \in BOOLEAN :
    /\ Running
    /\ SavePreset(CACHED_COSMETICS_FILENAME, "Cosmetic", io)
    /\ last' = Done("SaveCachedCosmetics", CACHED_COSMETICS_FILENAME, "Cosmetic",
                    BoolText(SaveFileOk("Cosmetic", io)),
                    SaveFileOk("Cosmetic", io), FALSE, {}, menus)

\* LoadCached without the search for the cache file
LoadCachedAlways(op, fileName, category) ==
  /\ Running
  /\ \E onNull \in NullReads :
       LET r == LoadPreset(fileName, category, onNull)
       IN /\ menus' = r.menus
          /\ trace' = r.steps
          /\ last' = Done(op, fileName, category,
                          IF r.ret = "crash" THEN "crash" ELSE "void",
                          FALSE, TRUE, {}, menus)
  /\ UNCHANGED <<files, dirs, openArchives, everCached>>

\* the body shared by LoadCachedSettings and LoadCachedCosmetics
LoadCached(op, fileName, category) ==
  /\ Running
  /\ IF ~DirectoryExists(BaseDirectory(category))
       THEN /\ last' = Done(op, fileName, category, "threw", FALSE, FALSE, {}, menus)
            /\ UNCHANGED menus
            /\ trace' = <<>>
     ELSE IF fileName \in DirectoryStems(category)
       THEN \E onNull \in NullReads :
              LET r == LoadPreset(fileName, category, onNull)
              IN /\ menus' = r.menus
                 /\ trace' = r.steps
                 /\ last' = Done(op, fileName, category,
                                 IF r.ret = "crash" THEN "crash" ELSE "void",
                                 FALSE, TRUE, {}, menus)
       ELSE /\ last' = Done(op, fileName, category, "void", FALSE, FALSE, {}, menus)
            /\ UNCHANGED menus
            /\ trace' = <<>>
  /\ UNCHANGED <<files, dirs, openArchives, everCached>>

LoadCachedSettings ==
  LoadCached("LoadCachedSettings", CACHED_SETTINGS_FILENAME, "Setting")

LoadCachedCosmetics ==
  LoadCached("LoadCachedCosmetics", CACHED_COSMETICS_FILENAME, "Cosmetic")

\* the user picks another choice of an option in the menu
SetSelectedIndex ==
  \E m \in DOMAIN menus :
    \E i \in DOMAIN menus[m].settingsList :
      \E idx \in DOMAIN OptionTexts :
        /\ Running
        /\ menus[m].settingsList[i].selectedOption # idx
        /\ menus' = [menus EXCEPT ![m].settingsList[i].selectedOption = idx]
        /\ last' = Done("SetSelectedIndex", "", "", "void", FALSE, FALSE, {}, menus')
        /\ trace' = <<>>
        /\ UNCHANGED <<files, dirs, openArchives, everCached>>

----------------------------------------------------------------------------
(* The program with its own menus on a fresh card.                         *)

Option(name, category, selected) ==
  [name |-> name, category |-> category, selectedOption |-> selected]

\* a menu that is not an option menu, with an option of its own
SubMenu ==
  [mode |-> "SUB_MENU", settingsList |-> << Option(<<"A">>, "Setting", 1) >>]

\* an option menu with a setting and a cosmetic, and a menu of another mode
ProgramMenus ==
  << [mode |-> "OPTION_MENU",
      settingsList |-> << Option(<<"A">>, "Setting", 1),
                          Option(<<"C", "\n", "D">>, "Cosmetic", 1) >>],
     SubMenu >>

Boot ==
  [op |-> "boot", name |-> "", category |-> "", ret |-> "void",
   wrote |-> FALSE, loaded |-> FALSE, list |-> {}, before |-> <<>>,
   follows |-> FALSE, again |-> FALSE, had |-> FALSE, opened |-> FALSE]

Init ==
  /\ menus = ProgramMenus
  /\ files = <<>>
  /\ dirs = {}
  /\ openArchives = 0
  /\ last = [Boot EXCEPT !.before = ProgramMenus]
  /\ trace = <<>>
  /\ everCached = {}

\* the names the user types, and the names the user picks from a list
TypedNames(category) == {"", "P", CachedFileName(category)}
PickedNames(category) == {"P", CachedFileName(category)}

Next ==
  \/ CreatePresetDirectories
  \/ GetSettingsPresets
  \/ \E c \in PresetCategories : \E n \in TypedNames(c) : SaveSpecifiedPreset(n, c)
  \/ \E c \in PresetCategories : \E n \in PickedNames(c) : LoadPresetOp(n, c)
  \/ \E c \in PresetCategories : \E n \in PickedNames(c) : DeletePreset(n, c)
  \/ SaveCachedSettings
  \/ LoadCachedSettings
  \/ SaveCachedCosmetics
  \/ LoadCachedCosmetics
  \/ SetSelectedIndex

Spec == Init /\ [][Next]_vars

----------------------------------------------------------------------------
(* Any menus against any stored document: a card written by another       *)
(* version of the program, or by hand.                                     *)

\* the options menus are made of: three settings, one of them with a line
\* break in its name, and a cosmetic that shares a setting's name
OptionKinds ==
  { [name |-> <<"A">>, category |-> "Setting"],
    [name |-> <<"B">>, category |-> "Setting"],
    [name |-> <<"C", "\n", "D">>, category |-> "Setting"],
    [name |-> <<"A">>, category |-> "Cosmetic"] }

\* the entries a stored document is made of; "Junk" is the text of no choice
EntryKinds ==
  { [name |-> <<"A">>, text |-> "On"], [name |-> <<"A">>, text |-> "Junk"],
    [name |-> <<"B">>, text |-> "On"], [name |-> <<"C", "D">>, text |-> "On"] }

EntryLists == UNION { [1..k -> EntryKinds] : k \in 0..MaxEntries }

SelectedKinds(selections) ==
  { Option(k.name, k.category, i) : k \in OptionKinds, i \in selections }

OptionLists(selections) ==
  UNION { [1..k -> SelectedKinds(selections)] : k \in 0..MaxOptions }

\* the options as menus: an option whose name the current menu already has
\* starts the next menu
RECURSIVE Grouped(_, _)
Grouped(list, acc) ==
  IF list = <<>> THEN acc
  ELSE LET o == Head(list)
           cur == acc[Len(acc)]
       IN IF \E j \in DOMAIN cur : cur[j].name = o.name
            THEN Grouped(Tail(list), Append(acc, <<o>>))
            ELSE Grouped(Tail(list), [acc EXCEPT ![Len(acc)] = Append(cur, o)])

MenusOf(list) ==
  LET g == Grouped(list, << <<>> >>)
  IN [i \in 1..Len(g) |-> [mode |-> "OPTION_MENU", settingsList |-> g[i]]]
       \o << SubMenu >>

\* documents with the root SavePreset writes, with the root of the older
\* format, with no root element, and bytes that do not parse
StoredDocuments ==
  { [parsed |-> TRUE, root |-> "settings", entries |-> e] : e \in EntryLists }
  \cup { [parsed |-> TRUE, root |-> "preset", entries |-> e] :
           e \in { l \in EntryLists : Len(l) = 1 } }
  \cup { [parsed |-> TRUE, root |-> NoRoot, entries |-> <<>>],
         [parsed |-> FALSE, root |-> NoRoot, entries |-> <<>>] }

\* the card holds one settings preset P and no cosmetics preset
InitApply ==
  /\ \E list \in OptionLists({1}) :
       /\ menus = MenusOf(list)
       /\ last = [Boot EXCEPT !.before = MenusOf(list)]
  /\ \E doc \in StoredDocuments :
       files = [p \in {PresetPath("P", "Setting")} |-> doc]
  /\ dirs = PresetDirectories
  /\ openArchives = 0
  /\ trace = <<>>
  /\ everCached = {}

NextApply == \E c \in PresetCategories : LoadPresetOp("P", c)

SpecApply == InitApply /\ [][NextApply]_vars

----------------------------------------------------------------------------
(* Any menus with any selections on a card with no presets: saving and     *)
(* loading back.                                                           *)

InitRound ==
  /\ \E list \in OptionLists(DOMAIN OptionTexts) :
       /\ menus = MenusOf(list)
       /\ last = [Boot EXCEPT !.before = MenusOf(list)]
  /\ files = <<>>
  /\ dirs = PresetDirectories
  /\ openArchives = 0
  /\ trace = <<>>
  /\ everCached = {}

NextRound ==
  \/ \E c \in PresetCategories : SavePresetOp("P", c)
  \/ \E c \in PresetCategories : LoadPresetOp("P", c)

SpecRound == InitRound /\ [][NextRound]_vars

----------------------------------------------------------------------------
(* What the claims speak of.                                               *)

\* every option of every menu, by position
Positions(ms) ==
  UNION { {<<m, i>> : i \in DOMAIN ms[m].settingsList} : m \in DOMAIN ms }

\* the options LoadPreset and SavePreset go through for a category
Live(ms, category) ==
  SelectSeq(Traversal(ms, 1), LAMBDA pos : IsCategory(OptionAt(ms, pos), category))

Key(name) == RemoveLineBreaks(name)

LoadedPath == PresetPath(last.name, last.category)

\* the last operation was a LoadPreset whose document passed the root check
PassedRootCheck ==
  /\ last.op = "LoadPreset"
  /\ LoadFileOk(LoadedPath)
  /\ files[LoadedPath].root = "settings"

LoadedEntries == files[LoadedPath].entries

EntryKeys == { Key(LoadedEntries[e].name) : e \in DOMAIN LoadedEntries }

LiveKeys == { Key(OptionAt(menus, pos).name) :
                pos \in { Live(menus, last.category)[i] :
                            i \in DOMAIN Live(menus, last.category) } }

LivePositions ==
  { Live(menus, last.category)[i] : i \in DOMAIN Live(menus, last.category) }

DistinctEntryKeys ==
  \A e, f \in DOMAIN LoadedEntries :
    Key(LoadedEntries[e].name) = Key(LoadedEntries[f].name) => e = f

DistinctLiveKeys ==
  \A p, q \in LivePositions :
    Key(OptionAt(menus, p).name) = Key(OptionAt(menus, q).name) => p = q

\* the entries with the option's name
EntriesOf(pos) ==
  { e \in DOMAIN LoadedEntries :
      Key(LoadedEntries[e].name) = Key(OptionAt(menus, pos).name) }

\* the steps of the last LoadPreset at the option
StepsAt(pos) == { i \in DOMAIN trace : trace[i].pos = pos }

IsChoice(text) == \E i \in DOMAIN OptionTexts : OptionTexts[i] = text

Unchanged(pos) == OptionAt(menus, pos) = OptionAt(last.before, pos)

----------------------------------------------------------------------------
(* C1 - Round trip. A LoadPreset that runs right after a SavePreset that   *)
(* stored the same name and category returns true and leaves every option  *)
(* of that category with the selection it had when the preset was saved    *)
(* (the options when the load started: nothing ran in between).            *)
RoundTripRestores ==
  last.follows =>
    /\ last.ret = "true"
    /\ \A pos \in Positions(menus) :
         IsCategory(OptionAt(menus, pos), last.category) =>
           OptionAt(menus, pos).selectedOption
             = OptionAt(last.before, pos).selectedOption

\* a round trip over two options of the category that share a name, in
\* different menus, and differ in their selection
RoundTripWitness ==
  /\ last.follows
  /\ last.ret = "true"
  /\ \E p, q \in LivePositions :
       /\ p[1] # q[1]
       /\ Key(OptionAt(menus, p).name) = Key(OptionAt(menus, q).name)
       /\ OptionAt(menus, p).selectedOption # OptionAt(menus, q).selectedOption

----------------------------------------------------------------------------
(* C2 - Reordering tolerance. The document's names are pairwise distinct   *)
(* and the live options of the category are a permutation of them.         *)
Permuted ==
  /\ PassedRootCheck
  /\ DistinctEntryKeys
  /\ Len(Live(menus, last.category)) = Len(LoadedEntries)
  /\ LiveKeys = EntryKeys

(* C2 as stated: after LoadPreset every live option holds the value of the *)
(* document entry with the same name.                                      *)
ReorderedHoldsEntryText ==
  Permuted =>
    \A pos \in LivePositions :
      \A e \in EntriesOf(pos) :
        GetSelectedOptionText(OptionAt(menus, pos)) = LoadedEntries[e].text

(* C2 - amended: LoadPreset returns true, and every live option holds the  *)
(* value of the entry with the same name when that value is the text of    *)
(* one of the option's choices, and keeps the value it had otherwise.      *)
ReorderedHoldsValidEntryText ==
  Permuted =>
    /\ last.ret = "true"
    /\ \A pos \in LivePositions :
         \A e \in EntriesOf(pos) :
           IF IsChoice(LoadedEntries[e].text)
             THEN GetSelectedOptionText(OptionAt(menus, pos)) = LoadedEntries[e].text
             ELSE Unchanged(pos)

\* document [A, B, CD] loaded into live options ordered [C\nD, A, B]: the
\* first option is found by the search from the start, all are set
ReorderedWitness ==
  /\ Permuted
  /\ Len(LoadedEntries) = 3
  /\ Key(OptionAt(menus, Live(menus, last.category)[1]).name)
       = Key(LoadedEntries[3].name)
  /\ Key(OptionAt(menus, Live(menus, last.category)[2]).name)
       = Key(LoadedEntries[1].name)
  /\ \E i \in DOMAIN trace : trace[i].path = "slow" /\ trace[i].entry = 3
  /\ \A pos \in LivePositions :
       /\ GetSelectedOptionText(OptionAt(menus, pos)) = "On"
       /\ ~Unchanged(pos)

----------------------------------------------------------------------------
(* C3 - Added option. The document has at least one entry: LoadPreset      *)
(* returns true, and a live option of the category whose name (line breaks *)
(* stripped) is the name of no entry keeps its value and is given no       *)
(* entry's text.                                                           *)
AddedOptionUntouched ==
  (PassedRootCheck /\ Len(LoadedEntries) >= 1) =>
    /\ last.ret = "true"
    /\ \A pos \in LivePositions :
         Key(OptionAt(menus, pos).name) \notin EntryKeys =>
           /\ Unchanged(pos)
           /\ \A i \in StepsAt(pos) : trace[i].entry = 0

\* an option the document does not name was passed over while another
\* option took a new value from the document
AddedOptionWitness ==
  /\ PassedRootCheck
  /\ Len(LoadedEntries) >= 1
  /\ last.ret = "true"
  /\ \E pos \in LivePositions :
       /\ Key(OptionAt(menus, pos).name) \notin EntryKeys
       /\ StepsAt(pos) # {}
  /\ \E pos \in LivePositions : ~Unchanged(pos)

----------------------------------------------------------------------------
(* C4 - Removed option. Live names pairwise distinct, document names       *)
(* pairwise distinct, and the document has entries that match no live      *)
(* option: LoadPreset returns true, every live option the document names   *)
(* is given the text of its own entry, and an orphan entry's text is       *)
(* given to no option.                                                     *)
Orphans == { e \in DOMAIN LoadedEntries : Key(LoadedEntries[e].name) \notin LiveKeys }

WithOrphans ==
  /\ PassedRootCheck
  /\ DistinctEntryKeys
  /\ DistinctLiveKeys
  /\ Orphans # {}

OrphansIgnored ==
  WithOrphans =>
    /\ last.ret = "true"
    /\ \A pos \in LivePositions :
         \A e \in EntriesOf(pos) :
           /\ \E i \in StepsAt(pos) : trace[i].entry = e
           /\ OptionAt(menus, pos)
                = SetSelectedIndexByString(OptionAt(last.before, pos),
                                           LoadedEntries[e].text)
    /\ \A i \in DOMAIN trace : trace[i].entry \notin Orphans

\* an orphan entry between the entries of two live options, both of which
\* took a new value
OrphansWitness ==
  /\ WithOrphans
  /\ last.ret = "true"
  /\ Len(LoadedEntries) = 3
  /\ Orphans = {2}
  /\ \A pos \in LivePositions : ~Unchanged(pos)
  /\ Len(Live(menus, last.category)) = 2

----------------------------------------------------------------------------
(* C5 - Category filtering. LoadPreset(name, C) changes no option whose    *)
(* category is not C, whatever the document holds; the loop passes such an *)
(* option without reading the cursor's entry and without moving the cursor.*)
OtherCategoryUntouched ==
  last.op = "LoadPreset" =>
    \A pos \in Positions(menus) :
      ~IsCategory(OptionAt(menus, pos), last.category) =>
        /\ Unchanged(pos)
        /\ \A i \in StepsAt(pos) :
             /\ trace[i].path = "skip"
             /\ trace[i].entry = 0
             /\ trace[i].after = trace[i].before

\* a cosmetic was passed over, with the cursor at an entry of its name,
\* while the setting of that name took the entry's value
OtherCategoryWitness ==
  /\ PassedRootCheck
  /\ last.ret = "true"
  /\ last.category = "Setting"
  /\ \E pos \in Positions(menus), i \in DOMAIN trace :
       /\ OptionAt(menus, pos).category = "Cosmetic"
       /\ trace[i].pos = pos
       /\ trace[i].before # 0
       /\ Key(LoadedEntries[trace[i].before].name) = Key(OptionAt(menus, pos).name)
       /\ LoadedEntries[trace[i].before].text = "On"
       /\ \E q \in LivePositions :
            /\ Key(OptionAt(menus, q).name) = Key(OptionAt(menus, pos).name)
            /\ ~Unchanged(q)

----------------------------------------------------------------------------
(* C6 - Malformed document. The stored file parses but its root element is *)
(* missing or is not named "settings": LoadPreset returns false and        *)
(* changes no option.                                                      *)
MalformedRootFails ==
  ( /\ last.op = "LoadPreset"
    /\ LoadFileOk(LoadedPath)
    /\ files[LoadedPath].root # "settings" ) =>
    /\ last.ret = "false"
    /\ menus = last.before

----------------------------------------------------------------------------
(* C7 - Schema drift is never an error. The document passed the root       *)
(* check, with any number of entries: LoadPreset returns true, and the     *)
(* cursor was at an entry every time its name was read.                    *)
DriftNeverFails ==
  PassedRootCheck =>
    /\ last.ret = "true"
    /\ \A i \in DOMAIN trace : trace[i].path # "null"

----------------------------------------------------------------------------
(* C8 - Handle release. Between operations no archive handle is open:      *)
(* every handle an operation opened is closed when it returns.             *)
NoArchiveLeftOpen == openArchives = 0

----------------------------------------------------------------------------
(* C9 - Load of an absent preset. No file at the path, or one that cannot  *)
(* be read: LoadPreset returns false and changes no option.                *)
AbsentPresetFails ==
  ( /\ last.op = "LoadPreset"
    /\ (LoadedPath \in DOMAIN files => ~files[LoadedPath].parsed) ) =>
    /\ last.ret = "false"
    /\ menus = last.before
    /\ trace = <<>>

\* a load of a preset that is not on the card, after an earlier load had
\* set an option
AbsentPresetWitness ==
  /\ last.op = "LoadPreset"
  /\ LoadedPath \notin DOMAIN files
  /\ last.ret = "false"
  /\ \E pos \in Positions(menus) : GetSelectedOptionText(OptionAt(menus, pos)) = "On"

----------------------------------------------------------------------------
----------------------------------------------------------------------------
(* C11 - Empty-name guard. SaveSpecifiedPreset with the empty name returns *)
(* false, and the card holds the same files with the same contents, and    *)
(* the same directories, after the call as before it.                      *)
EmptyNameSavesNothing ==
  [][ (last'.op = "SaveSpecifiedPreset" /\ last'.name = "") =>
        /\ last'.ret = "false"
        /\ ~last'.wrote
        /\ files' = files
        /\ dirs' = dirs ]_vars

\* the empty name was refused on a card whose directory exists and holds a
\* preset: a save there would have gone through
EmptyNameWitness ==
  /\ last.op = "SaveSpecifiedPreset"
  /\ last.name = ""
  /\ last.ret = "false"
  /\ DirectoryExists(BaseDirectory(last.category))
  /\ PresetPath("P", last.category) \in DOMAIN files

----------------------------------------------------------------------------
(* C12 - Enumerate excludes reserved names. Whatever was saved, cached and *)
(* deleted before, the list GetSettingsPresets returns does not hold the   *)
(* name of the settings cache, also when the cache file is on the card.    *)
EnumerationOmitsCache ==
  last.op = "GetSettingsPresets" => CACHED_SETTINGS_FILENAME \notin last.list

\* the settings cache has been stored and is on the card, next to a preset
\* that is listed
EnumerationWitness ==
  /\ last.op = "GetSettingsPresets"
  /\ last.ret = "true"
  /\ "Setting" \in everCached
  /\ PresetPath(CACHED_SETTINGS_FILENAME, "Setting") \in DOMAIN files
  /\ last.list = {"P"}

----------------------------------------------------------------------------
(* C13 - Reserved names are used by the auto-restore path only. In every   *)
(* step that creates the cache file of a category, or changes its content, *)
(* the operation is SaveCachedSettings or SaveCachedCosmetics: no          *)
(* SaveSpecifiedPreset changes what a later LoadCached* applies.           *)
CacheWrittenByCacheSavesOnly ==
  [][ \A c \in PresetCategories :
        LET cache == PresetPath(CachedFileName(c), c)
        IN ( /\ cache \in DOMAIN files'
             /\ (cache \in DOMAIN files => files'[cache] # files[cache]) ) =>
             last'.op \in {"SaveCachedSettings", "SaveCachedCosmetics"} ]_vars

----------------------------------------------------------------------------
(* C14 - Order invariance under no drift. The names of the document's      *)
(* entries, in order, are the names (line breaks stripped) of the live     *)
(* options of the category, in traversal order.                            *)
SameOrder ==
  /\ PassedRootCheck
  /\ Len(LoadedEntries) = Len(Live(menus, last.category))
  /\ \A i \in DOMAIN LoadedEntries :
       Key(LoadedEntries[i].name)
         = Key(OptionAt(menus, Live(menus, last.category)[i]).name)

(* Then LoadPreset returns true, every option of the category is matched   *)
(* at the cursor, and the search from the start of the document never      *)
(* runs.                                                                   *)
SameOrderAllFast ==
  SameOrder =>
    /\ last.ret = "true"
    /\ \A i \in DOMAIN trace :
         IF trace[i].pos \in LivePositions
           THEN trace[i].path = "fast"
           ELSE trace[i].path = "skip"

\* two settings in the document's order, a cosmetic among them, both
\* settings took a new value
SameOrderWitness ==
  /\ SameOrder
  /\ Len(LoadedEntries) = 2
  /\ \E i \in DOMAIN trace : trace[i].path = "skip"
  /\ \A pos \in LivePositions : ~Unchanged(pos)
  /\ \A i \in DOMAIN trace : trace[i].path \in {"skip", "fast"}

----------------------------------------------------------------------------
(* C15 - Idempotence of Apply. A LoadPreset that runs right after a        *)
(* LoadPreset of the same name and category (the same document: no         *)
(* operation ran in between) leaves every option with the value the first  *)
(* one left it with.                                                       *)
SecondLoadChangesNothing ==
  last.again => menus = last.before

\* the second application of a document with entries of the same name and
\* different texts, which had changed an option the first time
SecondLoadWitness ==
  /\ last.again
  /\ PassedRootCheck
  /\ last.ret = "true"
  /\ ~DistinctEntryKeys
  /\ \E e, f \in DOMAIN LoadedEntries : LoadedEntries[e].text # LoadedEntries[f].text
  /\ \E pos \in LivePositions :
       /\ GetSelectedOptionText(OptionAt(menus, pos)) = "On"
       /\ \E i \in StepsAt(pos) : trace[i].entry # 0

----------------------------------------------------------------------------
(* C16 - Save order. The options a save of the category writes: those of   *)
(* the menus that are option menus, of that category.                      *)
Written(category) ==
  { pos \in Positions(menus) :
      /\ menus[pos[1]].mode = "OPTION_MENU"
      /\ OptionAt(menus, pos).category = category }

\* the place of the option among them, in the order menus and their
\* options are gone through
Rank(category, pos) ==
  Cardinality({ q \in Written(category) :
                  q[1] < pos[1] \/ (q[1] = pos[1] /\ q[2] <= pos[2]) })

(* The document a save has stored has the root "settings" and one entry    *)
(* per such option and no other entry; the entry of an option is at the    *)
(* option's place in traversal order and holds its name without line       *)
(* breaks and the text of its selected choice. Saving changes no option.   *)
SavedInTraversalOrder ==
  last.wrote =>
    LET doc == files[LoadedPath]
    IN /\ doc.parsed
       /\ doc.root = "settings"
       /\ Len(doc.entries) = Cardinality(Written(last.category))
       /\ \A pos \in Written(last.category) :
            doc.entries[Rank(last.category, pos)]
              = [name |-> Key(OptionAt(menus, pos).name),
                 text |-> OptionTexts[OptionAt(menus, pos).selectedOption]]
       /\ menus = last.before

\* a save of the settings of menus with a cosmetic before two settings of
\* different selections, the first with a line break in its name
SavedOrderWitness ==
  /\ last.op = "SavePreset"
  /\ last.wrote
  /\ last.category = "Setting"
  /\ \E pos \in Positions(menus) :
       pos = <<1, 1>> /\ OptionAt(menus, pos).category = "Cosmetic"
  /\ files[LoadedPath].entries
       = << [name |-> <<"C", "D">>, text |-> "On"],
            [name |-> <<"B">>, text |-> "Off"] >>

----------------------------------------------------------------------------
(* C17 - Delete is best-effort. In every step:                             *)
(*  - a DeletePreset that could open the archive returns true, whether or  *)
(*    not there was a file, and leaves no file at the preset's path (and   *)
(*    every other file as it was);                                         *)
(*  - a file comes to be at a path only by a save of that name and         *)
(*    category that stored it;                                             *)
(*  - a LoadPreset of a path with no file returns false;                   *)
(*  - GetSettingsPresets lists a name only if its file is on the card.     *)
(* So after the delete the load fails and the name is not listed, until    *)
(* the same name and category is saved again.                              *)
DeleteIsBestEffort ==
  [][ /\ (last'.op = "DeletePreset" /\ last'.opened) =>
           /\ last'.ret = "true"
           /\ PresetPath(last'.name, last'.category) \notin DOMAIN files'
           /\ \A p \in DOMAIN files \ {PresetPath(last'.name, last'.category)} :
                p \in DOMAIN files' /\ files'[p] = files[p]
      /\ \A p \in DOMAIN files' \ DOMAIN files :
           last'.wrote /\ p = PresetPath(last'.name, last'.category)
      /\ ( /\ last'.op = "LoadPreset"
           /\ PresetPath(last'.name, last'.category) \notin DOMAIN files' ) =>
           last'.ret = "false"
      /\ last'.op = "GetSettingsPresets" =>
           \A n \in PresetNames :
             n \in last'.list => PresetPath(n, "Setting") \in DOMAIN files' ]_vars

\* a settings preset that was on the card was deleted: its file is gone
\* and the cosmetics preset of the same name is still there
DeleteWitness ==
  /\ last.op = "DeletePreset"
  /\ last.opened
  /\ last.had
  /\ last.ret = "true"
  /\ last.name = "P"
  /\ last.category = "Setting"
  /\ PresetPath("P", "Setting") \notin DOMAIN files
  /\ PresetPath("P", "Cosmetic") \in DOMAIN files

----------------------------------------------------------------------------
(* C18 - Category isolation of paths. In every step that saves or deletes  *)
(* a preset of one category: no settings preset has the path of a          *)
(* cosmetics preset, whatever their names, and every preset file of the    *)
(* other category is on the card after the step exactly if it was before,  *)
(* with the same content.                                                  *)
SavesAndDeletes ==
  { "SavePreset", "SaveSpecifiedPreset", "SaveCachedSettings",
    "SaveCachedCosmetics", "DeletePreset" }

CategoriesIsolated ==
  [][ last'.op \in SavesAndDeletes =>
        /\ \A n, m \in PresetNames :
             PresetPath(n, "Setting") # PresetPath(m, "Cosmetic")
        /\ \A d \in PresetCategories \ {last'.category} :
             \A n \in PresetNames :
               LET p == PresetPath(n, d)
               IN /\ (p \in DOMAIN files') = (p \in DOMAIN files)
                  /\ p \in DOMAIN files => files'[p] = files[p] ]_vars

\* a settings preset was stored under a name a cosmetics preset already
\* has: both files are on the card, each with the options of its category
CategoriesWitness ==
  /\ last.op = "SaveSpecifiedPreset"
  /\ last.wrote
  /\ last.name = "P"
  /\ last.category = "Setting"
  /\ PresetPath("P", "Cosmetic") \in DOMAIN files
  /\ files[PresetPath("P", "Cosmetic")].entries # <<>>
  /\ files[PresetPath("P", "Cosmetic")].entries[1].name = <<"C", "D">>
  /\ files[PresetPath("P", "Setting")].entries[1].name = <<"A">>

----------------------------------------------------------------------------
(* C19 - Name normalization. HasLineBreak: the name holds a line break.    *)
HasLineBreak(name) == \E k \in DOMAIN name : name[k] = LineBreak

\* the last operation ran LoadPreset on a document that passed the root
\* check
LoadedDocument ==
  /\ last.loaded
  /\ LoadFileOk(LoadedPath)
  /\ files[LoadedPath].root = "settings"

(* A document a save has stored holds no name with a line break. After a   *)
(* LoadPreset that returned, an option of the category whose name holds    *)
(* line breaks, the only one with its stripped name, has been given the    *)
(* text of the one entry whose name (line breaks stripped) is that         *)
(* stripped name.                                                          *)
LineBreaksStripped ==
  /\ last.wrote =>
       \A e \in DOMAIN files[LoadedPath].entries :
         ~HasLineBreak(files[LoadedPath].entries[e].name)
  /\ (LoadedDocument /\ last.ret # "crash") =>
       \A pos \in LivePositions :
         \A e \in EntriesOf(pos) :
           ( /\ HasLineBreak(OptionAt(menus, pos).name)
             /\ EntriesOf(pos) = {e}
             /\ \A q \in LivePositions :
                  Key(OptionAt(menus, q).name) = Key(OptionAt(menus, pos).name)
                    => q = pos ) =>
             /\ \E i \in StepsAt(pos) : trace[i].entry = e
             /\ OptionAt(menus, pos)
                  = SetSelectedIndexByString(OptionAt(last.before, pos),
                                             LoadedEntries[e].text)

\* the cosmetic named "C\nD" took a new value from the entry named "CD" of
\* a stored preset
LineBreaksWitness ==
  /\ last.op = "LoadPreset"
  /\ last.ret = "true"
  /\ last.category = "Cosmetic"
  /\ LoadedDocument
  /\ LoadedEntries[1].name = <<"C", "D">>
  /\ \E pos \in LivePositions :
       /\ OptionAt(menus, pos).name = <<"C", "\n", "D">>
       /\ ~Unchanged(pos)
       /\ GetSelectedOptionText(OptionAt(menus, pos)) = LoadedEntries[1].text

----------------------------------------------------------------------------
(* C20 - Getting back on track. The steps of the last LoadPreset at        *)
(* options of the category, in order.                                      *)
LiveSteps ==
  SelectSeq([j \in DOMAIN trace |-> j], LAMBDA j : trace[j].path # "skip")

\* the step missed the entry at the cursor and the search found entry i
FoundBySearch(j, i) == trace[j].path = "slow" /\ trace[j].entry = i /\ i # 0

(* When the search finds an option's entry at position i, the cursor is    *)
(* left at i + 1, or at the first entry when i is the last. If the next n  *)
(* options of the category have the names of the entries i + 1 .. i + n,   *)
(* in that order, each of them is matched at the cursor, with its own      *)
(* entry, and the search does not run for them.                            *)
BackOnTrack ==
  (PassedRootCheck /\ last.ret = "true") =>
    \A a \in DOMAIN LiveSteps :
      \A i \in DOMAIN LoadedEntries :
        FoundBySearch(LiveSteps[a], i) =>
          /\ trace[LiveSteps[a]].after
               = IF i < Len(LoadedEntries) THEN i + 1 ELSE 1
          /\ \A n \in 1..Len(LoadedEntries) :
               ( /\ a + n <= Len(LiveSteps)
                 /\ i + n <= Len(LoadedEntries)
                 /\ \A r \in 1..n :
                      Key(OptionAt(menus, trace[LiveSteps[a + r]].pos).name)
                        = Key(LoadedEntries[i + r].name) ) =>
                 \A r \in 1..n :
                   /\ trace[LiveSteps[a + r]].path = "fast"
                   /\ trace[LiveSteps[a + r]].entry = i + r

\* document [A, B, CD], options [B, C\nD]: B is found by the search at
\* entry 2 and C\nD is then matched at the cursor, at entry 3
BackOnTrackWitness ==
  /\ PassedRootCheck
  /\ last.ret = "true"
  /\ Len(LoadedEntries) = 3
  /\ Len(LiveSteps) = 2
  /\ FoundBySearch(LiveSteps[1], 2)
  /\ trace[LiveSteps[2]].path = "fast"
  /\ trace[LiveSteps[2]].entry = 3
  /\ trace[LiveSteps[2]].after = 1
  /\ \A pos \in LivePositions : ~Unchanged(pos)

====
